---- MODULE Spec2Model ----
(***************************************************************************)
(* Model of the AgentCore MCP gateway CDK stack.                           *)
(*                                                                         *)
(* The program has two parts.  The constructors (McpGatewayStack,          *)
(* AgentCoreGateway, IntegrationTarget, ...) run at synthesis time: they   *)
(* validate the configuration and build a graph of resources, each with    *)
(* its dependency edges and, for a custom resource, the control-plane      *)
(* calls to make on create, update and delete.  They are modelled as       *)
(* operators over the configuration.  The provisioning engine then walks   *)
(* that graph: it is modelled as the actions of the state machine, one     *)
(* resource operation per step, in any order the dependency edges allow.   *)
(***************************************************************************)
EXTENDS Integers, Sequences, FiniteSets, TLC

VARIABLES
    props,      \* the McpGatewayStackProps of the latest synthesis
    stack,      \* what the McpGatewayStack constructor produced from props
    txn,        \* the provisioning transaction in progress
    applied,    \* the resources that exist: id -> physical id, definition, remote state
    gwState,    \* lifecycle state of the gateway in the control plane
    gwId,       \* the identifier the control plane gave the gateway it created
    lastCall,   \* per resource, the latest operation issued for it
    redeploys,  \* number of redeployments so far
    input,      \* the arguments of one function of the program, applied alone
    output      \* its result

vars == <<props, stack, txn, applied, gwState, gwId, lastCall, redeploys, input, output>>

(***************************************************************************)
(* Bounds of the model.                                                    *)
(***************************************************************************)
MaxTargets == 2
MaxRedeploys == 1

(***************************************************************************)
(* JavaScript values.  A missing string is Undefined; `x || d` takes d     *)
(* when x is undefined or empty.                                           *)
(***************************************************************************)
Undefined == "<undefined>"

Truthy(v) == v # Undefined /\ v # ""

OrElse(v, d) == IF Truthy(v) THEN v ELSE d

(***************************************************************************)
(* String functions of the JavaScript runtime, computed character by       *)
(* character.                                                              *)
(***************************************************************************)
LowerLetters == "abcdefghijklmnopqrstuvwxyz"
UpperLetters == "ABCDEFGHIJKLMNOPQRSTUVWXYZ"

CharAt(s, i) == SubSeq(s, i, i)

Slice(s, i) == SubSeq(s, i, Len(s))

UpperChar(c) ==
    IF \E i \in 1..26 : CharAt(LowerLetters, i) = c
    THEN CharAt(UpperLetters, CHOOSE i \in 1..26 : CharAt(LowerLetters, i) = c)
    ELSE c

LowerChar(c) ==
    IF \E i \in 1..26 : CharAt(UpperLetters, i) = c
    THEN CharAt(LowerLetters, CHOOSE i \in 1..26 : CharAt(UpperLetters, i) = c)
    ELSE c

RECURSIVE toUpperCase(_)
toUpperCase(s) ==
    IF s = "" THEN "" ELSE UpperChar(CharAt(s, 1)) \o toUpperCase(Slice(s, 2))

RECURSIVE toLowerCase(_)
toLowerCase(s) ==
    IF s = "" THEN "" ELSE LowerChar(CharAt(s, 1)) \o toLowerCase(Slice(s, 2))

startsWith(s, p) == Len(s) >= Len(p) /\ SubSeq(s, 1, Len(p)) = p

\* Index of the first occurrence of p in s, 0 when there is none.
IndexOf(s, p) ==
    LET hits == {i \in 1..(Len(s) - Len(p) + 1) : SubSeq(s, i, i + Len(p) - 1) = p}
    IN  IF hits = {} THEN 0 ELSE CHOOSE i \in hits : \A j \in hits : i <= j

\* String.prototype.replace with a string pattern: the first occurrence only.
replace(s, p, r) ==
    LET i == IndexOf(s, p)
    IN  IF i = 0 THEN s
        ELSE SubSeq(s, 1, i - 1) \o r \o Slice(s, i + Len(p))

\* crypto.createHash('sha256').update(s).digest('hex').substring(0, 10),
\* tabulated for the strings the model hashes.
Sha256Hex10(s) ==
    CASE s = "jira-target-id" -> "836345f4c6"
      [] s = "snowflake-target-id" -> "34e74ea656"
      [] s = "slack-target-id" -> "30f6912411"
      [] s = "integration-target-id" -> "13fcc251ac"
      [] s = "McpGatewayStackV4-execution-role" -> "617bed0bf2"
      [] s = "McpGatewayStackV4-jira-schema" -> "9332ee03d6"
      [] s = "McpGatewayStackV4-snowflake-schema" -> "14b488cfe3"
      [] s = "McpGatewayStackV4-slack-schema" -> "b456dd5fa2"

(***************************************************************************)
(* The environment of a synthesis.                                         *)
(***************************************************************************)
StackName == "McpGatewayStackV4"
Account == "111122223333"
Region == "us-east-1"

\* The schema templates present in the schemas directory: type -> content.
SchemaTemplates ==
    [t \in {"jira", "snowflake"} |->
        "{\"servers\":[{\"url\":\"{{BASE_URL}}\"}],\"x-docs\":\"{{BASE_URL}}/" \o t \o "\"}"]

existsSync(type) == type \in DOMAIN SchemaTemplates

(***************************************************************************)
(* Records.  A record field that JavaScript would leave undefined is       *)
(* dropped when the call is serialized, so optional fields are added with  *)
(* Opt.                                                                    *)
(***************************************************************************)
EmptyRecord == [k \in {} |-> Undefined]

Opt(key, v) == IF v = Undefined THEN EmptyRecord ELSE (key :> v)

NoCall == [action |-> "none"]

\* custom.PhysicalResourceIdReference: replaced by the resource's physical id
\* when the call is made.
PhysicalResourceIdReference == "PHYSICAL:RESOURCEID:"

\* gateway.getResponseField('gatewayId'): resolved from the gateway's response.
GatewayIdToken == "${Token[McpGateway.Gateway.gatewayId]}"
UserPoolIdToken == "${Token[McpGatewayCognito.UserPool.Ref]}"
ClientIdToken == "${Token[McpGatewayCognito.UserPool.GatewayClient.Ref]}"
RoleArnToken == "${Token[McpGatewayExecutionRole.Arn]}"

\* Resource ids: the construct paths below the stack.
SchemaBucketId == "SchemaBucket"
CognitoId == "McpGatewayCognito"
ExecutionRoleId == "McpGatewayExecutionRole"
GatewayId == "McpGateway/Gateway"

SchemaBucketName == "mcp-gateway-schemas-" \o Account \o "-" \o Region \o "-v3"
SchemaBucketArn == "arn:aws:s3:::" \o SchemaBucketName

Resource(type, dependsOn, properties, onCreate, onUpdate, onDelete) ==
    [type |-> type, dependsOn |-> dependsOn, properties |-> properties,
     onCreate |-> onCreate, onUpdate |-> onUpdate, onDelete |-> onDelete]

NativeResource(type, dependsOn, properties) ==
    Resource(type, dependsOn, properties, NoCall, NoCall, NoCall)

AwsCustomResource(dependsOn, onCreate, onUpdate, onDelete) ==
    Resource("Custom::AWS", dependsOn, EmptyRecord, onCreate, onUpdate, onDelete)

(***************************************************************************)
(* AgentCoreCognitoUserPool                                                *)
(***************************************************************************)
AgentCoreCognitoUserPool ==
    [discoveryUrl |-> "https://cognito-idp." \o Region \o ".amazonaws.com/"
                        \o UserPoolIdToken \o "/.well-known/openid-configuration",
     clientId |-> ClientIdToken]

\* A variant that lists the client id as an audience instead of a client.
createJwtAuthorizerConfigAudience(pool) ==
    [discoveryUrl |-> pool.discoveryUrl, allowedAudience |-> <<pool.clientId>>]

createJwtAuthorizerConfig(pool) ==
    [discoveryUrl |-> pool.discoveryUrl, allowedClients |-> <<pool.clientId>>]

(***************************************************************************)
(* AgentCoreGatewayExecutionRole, and the statement the stack adds to it.  *)
(***************************************************************************)
Statement(actions, resources, conditions) ==
    [actions |-> actions, resources |-> resources, conditions |-> conditions]

AgentCoreGatewayExecutionRole(p) ==
    LET logs == "arn:aws:logs:" \o Region \o ":" \o Account \o ":log-group:"
        basic ==
            << Statement({"logs:DescribeLogStreams", "logs:CreateLogGroup",
                          "logs:CreateLogStream", "logs:PutLogEvents"},
                         {logs \o "/aws/bedrock-agentcore/gateways/*",
                          logs \o "/aws/bedrock-agentcore/gateways/*:log-stream:*"}, {}),
               Statement({"logs:DescribeLogGroups"}, {logs \o "*"}, {}),
               Statement({"xray:PutTraceSegments", "xray:PutTelemetryRecords",
                          "xray:GetSamplingRules", "xray:GetSamplingTargets"}, {"*"}, {}),
               Statement({"cloudwatch:PutMetricData"}, {"*"},
                         {<<"StringEquals", "cloudwatch:namespace", "bedrock-agentcore">>}) >>
        lambda == IF p.lambdaFunctionArns # {}
                  THEN <<Statement({"lambda:InvokeFunction"}, p.lambdaFunctionArns, {})>>
                  ELSE <<>>
        s3 == IF Len(p.s3BucketArns) > 0
              THEN <<Statement({"s3:GetObject"},
                               {p.s3BucketArns[i] \o "/*" : i \in DOMAIN p.s3BucketArns}, {})>>
              ELSE <<>>
        search == IF p.enableSemanticSearch
                  THEN <<Statement({"bedrock-agentcore:SynchronizeGatewayTargets"}, {"*"}, {})>>
                  ELSE <<>>
    IN  [roleName |-> p.roleName,
         assumedBy |-> "bedrock-agentcore.amazonaws.com",
         statements |-> basic \o lambda \o s3 \o search]

addToPolicy(role, statement) ==
    [role EXCEPT !.statements = Append(@, statement)]

StackRoleStatement ==
    Statement({"bedrock:InvokeModel", "bedrock:InvokeModelWithResponseStream",
               "bedrock-agentcore:CreateApiKeyCredentialProvider",
               "bedrock-agentcore:UpdateApiKeyCredentialProvider",
               "bedrock-agentcore:DeleteApiKeyCredentialProvider",
               "bedrock-agentcore:GetApiKeyCredentialProvider",
               "bedrock-agentcore:DeleteGateway", "bedrock-agentcore:DeleteTarget",
               "bedrock-agentcore:*",
               "secretsmanager:CreateSecret", "secretsmanager:UpdateSecret",
               "secretsmanager:DeleteSecret", "secretsmanager:GetSecretValue",
               "secretsmanager:PutSecretValue", "secretsmanager:DescribeSecret"},
              {"*"}, {})

(***************************************************************************)
(* AgentCoreGateway.  The constructor reads props.jwtAuthorizer.discoveryUrl *)
(* while it builds the create call: with no jwtAuthorizer that read throws *)
(* a TypeError.  props.authenticationType is not a property it reads.      *)
(***************************************************************************)
protocolConfiguration(p) ==
    [mcp |-> [supportedVersions |-> <<"2025-03-26">>]
             @@ (IF p.enableSemanticSearch THEN "searchType" :> "SEMANTIC" ELSE EmptyRecord)
             @@ (IF Truthy(p.instructions) THEN "instructions" :> p.instructions
                 ELSE EmptyRecord)]

\* The three fields copied from props.jwtAuthorizer; an undefined one is
\* not serialized.
customJWTAuthorizer(jwt) ==
    [k \in {"discoveryUrl", "allowedAudience", "allowedClients"} \cap DOMAIN jwt |-> jwt[k]]

GatewayParameters(p) ==
    [name |-> p.gatewayName,
     description |-> p.description,
     protocolType |-> "MCP",
     protocolConfiguration |-> protocolConfiguration(p),
     roleArn |-> p.executionRole,
     authorizerType |-> "CUSTOM_JWT",
     authorizerConfiguration |->
        [customJWTAuthorizer |-> customJWTAuthorizer(p.jwtAuthorizer)]]
    @@ Opt("exceptionLevel", p.exceptionLevel)

GatewayOnCreate(p) ==
    [service |-> "bedrock-agentcore-control", action |-> "CreateGateway",
     parameters |-> GatewayParameters(p),
     physicalResourceId |-> [fromResponse |-> "gatewayId"]]

\* A variant that re-keys the resource by the gateway's name on update.
GatewayOnUpdateRekeyed(p) ==
    [service |-> "bedrock-agentcore-control", action |-> "UpdateGateway",
     parameters |-> ("gatewayIdentifier" :> PhysicalResourceIdReference)
                    @@ GatewayParameters(p),
     physicalResourceId |-> [of |-> p.gatewayName]]

\* A variant that makes the create call again on update.
GatewayOnUpdateAsCreate(p) == GatewayOnCreate(p)

GatewayOnUpdate(p) ==
    [service |-> "bedrock-agentcore-control", action |-> "UpdateGateway",
     parameters |-> ("gatewayIdentifier" :> PhysicalResourceIdReference)
                    @@ GatewayParameters(p),
     physicalResourceId |-> [fromResponse |-> "gatewayId"]]

GatewayOnDelete ==
    [service |-> "bedrock-agentcore-control", action |-> "DeleteGateway",
     parameters |-> [gatewayIdentifier |-> PhysicalResourceIdReference]]

\* The resources a parameter refers to through the tokens it carries.
AuthorizerRefs(jwt) ==
    IF IndexOf(jwt.discoveryUrl, UserPoolIdToken) > 0 THEN {CognitoId} ELSE {}

AgentCoreGateway(p) ==
    IF "jwtAuthorizer" \notin DOMAIN p
    THEN [thrown |-> "TypeError", resources |-> EmptyRecord]
    ELSE [thrown |-> "none",
          gatewayId |-> GatewayIdToken,
          resources |-> GatewayId :>
              AwsCustomResource({ExecutionRoleId} \cup AuthorizerRefs(p.jwtAuthorizer),
                                GatewayOnCreate(p), GatewayOnUpdate(p), GatewayOnDelete)]

(***************************************************************************)
(* AgentCoreGatewayTarget                                                  *)
(***************************************************************************)
TargetParameters(p) ==
    [gatewayIdentifier |-> p.gateway.gatewayId,
     name |-> p.targetName,
     description |-> p.description,
     targetConfiguration |-> [mcp |-> [openApiSchema |-> p.targetConfiguration.openApiSchema]],
     credentialProviderConfigurations |-> p.credentialProviderConfigurations]

TargetOnCreate(p) ==
    [service |-> "bedrock-agentcore-control", action |-> "CreateGatewayTarget",
     parameters |-> TargetParameters(p),
     physicalResourceId |-> [fromResponse |-> "targetId"]]

TargetOnUpdate(p) ==
    [service |-> "bedrock-agentcore-control", action |-> "UpdateGatewayTarget",
     parameters |-> ("targetId" :> PhysicalResourceIdReference) @@ TargetParameters(p),
     physicalResourceId |-> [fromResponse |-> "targetId"]]

TargetOnDelete(p) ==
    [service |-> "bedrock-agentcore-control", action |-> "DeleteGatewayTarget",
     parameters |-> [gatewayIdentifier |-> p.gateway.gatewayId,
                     targetId |-> PhysicalResourceIdReference]]

\* target.node.addDependency(props.gateway), and the resources whose tokens
\* the parameters carry: the gateway's id, the stack's bucket name.
GatewayTargetDependsOn(p) ==
    {GatewayId}
    \cup (IF p.gateway.gatewayId = GatewayIdToken THEN {GatewayId} ELSE {})
    \cup (IF IndexOf(p.targetConfiguration.openApiSchema.s3.uri, SchemaBucketName) > 0
          THEN {SchemaBucketId} ELSE {})

AgentCoreGatewayTarget(id, p) ==
    [targetId |-> "${Token[" \o id \o ".Target.targetId]}",
     resources |-> (id \o "/Target") :>
        AwsCustomResource(GatewayTargetDependsOn(p),
                          TargetOnCreate(p), TargetOnUpdate(p), TargetOnDelete(p))]

\* A variant that declares no edge.
addDependencyNone(c, deps) == c

\* n.addDependency(d...) on the one resource of construct c.
addDependency(c, deps) ==
    [c EXCEPT !.resources =
        [r \in DOMAIN @ |-> [@[r] EXCEPT !.dependsOn = @ \cup deps]]]

(***************************************************************************)
(* IntegrationTarget                                                       *)
(***************************************************************************)
targetNameBase(p) == OrElse(p.targetName, "integration")

uniqueId(p) == toUpperCase(Sha256Hex10(targetNameBase(p) \o "-target-id"))

\* A variant that names the secret after the key it holds.
secretNameKeyed(p) ==
    toLowerCase(targetNameBase(p)) \o "-api-key-" \o OrElse(p.apiKey, "dummy-api-key")

secretName(p) == toLowerCase(targetNameBase(p)) \o "-api-key-" \o uniqueId(p) \o "1"

providerName(p) == toLowerCase(targetNameBase(p)) \o "_api_key_" \o uniqueId(p)

gatewayTargetName(p) == targetNameBase(p) \o "-" \o uniqueId(p)

\* A variant that takes the secret's name for the provider's.
providerArnBySecretName(p) ==
    "arn:aws:bedrock-agentcore:" \o Region \o ":" \o Account
        \o ":token-vault/default/apikeycredentialprovider/" \o secretName(p)

providerArn(p) ==
    "arn:aws:bedrock-agentcore:" \o Region \o ":" \o Account
        \o ":token-vault/default/apikeycredentialprovider/" \o providerName(p)

\* uri.match(/^s3:\/\/([^\/]+)\/(.+)$/): <<>> for null, else <<bucket, key>>.
\* "." matches no line terminator, so the key holds none.
s3UriMatch(uri) ==
    IF ~startsWith(uri, "s3://") THEN <<>>
    ELSE LET rest == Slice(uri, 6)
             i == IndexOf(rest, "/")
         IN  IF /\ i >= 2 /\ i < Len(rest)
                /\ IndexOf(Slice(rest, i + 1), "\n") = 0
                /\ IndexOf(Slice(rest, i + 1), "\r") = 0
             THEN <<SubSeq(rest, 1, i - 1), Slice(rest, i + 1)>>
             ELSE <<>>

SecretId(id, p) == id \o "/" \o targetNameBase(p) \o "ApiKeySecret"
ProviderId(id, p) == id \o "/" \o targetNameBase(p) \o "ApiKeyCredentialProvider"
TargetConstructId(id, p) == id \o "/Target-" \o uniqueId(p)

IntegrationSecret(p) ==
    NativeResource("AWS::SecretsManager::Secret", {},
        [secretName |-> secretName(p),
         description |-> "API key for " \o targetNameBase(p) \o " integration",
         secretString |-> OrElse(p.apiKey, "dummy-api-key")])

apiKeyCredentialProvider(p) ==
    AwsCustomResource({},
        [service |-> "bedrock-agentcore-control",
         action |-> "createApiKeyCredentialProvider",
         parameters |->
            [name |-> providerName(p),
             description |-> "API key credential provider for "
                                \o targetNameBase(p) \o " integration",
             apiKey |-> OrElse(p.apiKey, "dummy-api-key")],
         physicalResourceId |-> [fromResponse |-> "name"]],
        NoCall,
        [service |-> "bedrock-agentcore-control",
         action |-> "deleteApiKeyCredentialProvider",
         parameters |-> [name |-> PhysicalResourceIdReference]])

\* A variant that ignores props.auth.
credentialProviderConfigurationsFixed(p) ==
    << [credentialProviderType |-> "API_KEY",
        credentialProvider |->
          [apiKeyCredentialProvider |->
             [providerArn |-> providerArn(p),
              credentialLocation |-> "HEADER",
              credentialParameterName |-> "Authorization",
              credentialPrefix |-> "Basic"]]] >>

credentialProviderConfigurations(p) ==
    << [credentialProviderType |-> "API_KEY",
        credentialProvider |->
          [apiKeyCredentialProvider |->
             [providerArn |-> providerArn(p),
              credentialLocation |-> "HEADER",
              credentialParameterName |-> OrElse(p.auth.parameterName, "Authorization"),
              credentialPrefix |-> OrElse(p.auth.prefix, "Basic")]]] >>

\* A variant that leaves the secret out.
IntegrationTargetDependenciesProviderOnly(id, p) == {ProviderId(id, p)}

\* A variant that leaves the credential provider out.
IntegrationTargetDependenciesSecretOnly(id, p) == {SecretId(id, p)}

\* target.node.addDependency(secret); target.node.addDependency(provider).
IntegrationTargetDependencies(id, p) == {SecretId(id, p), ProviderId(id, p)}

IntegrationTarget(id, p) ==
    LET match == s3UriMatch(p.openApiSchemaS3Uri)
        target == AgentCoreGatewayTarget(TargetConstructId(id, p),
            [gateway |-> p.gateway,
             targetName |-> gatewayTargetName(p),
             description |-> OrElse(p.description, targetNameBase(p) \o " MCP Server"),
             targetConfiguration |-> [openApiSchema |-> [s3 |-> [uri |-> p.openApiSchemaS3Uri]]],
             credentialProviderConfigurations |-> credentialProviderConfigurations(p),
             toolSchemaBucket |-> match[1]])
    IN  IF match = <<>>
        THEN [thrown |-> "InvalidS3Uri", resources |-> EmptyRecord]
        ELSE [thrown |-> "none",
              target |-> [targetId |-> target.targetId],
              resources |->
                  (SecretId(id, p) :> IntegrationSecret(p))
                  @@ (ProviderId(id, p) :> apiKeyCredentialProvider(p))
                  @@ addDependency(target, IntegrationTargetDependencies(id, p)).resources]

(***************************************************************************)
(* McpGatewayStack.generateProcessedSchema                                 *)
(***************************************************************************)
\* The replacement text of one match: String.prototype.replace reads "$$" in
\* the replacement string as "$", "$&" as the match and "$'" as the text
\* after the match; with no capture group any other "$" is itself.  ("$"
\* before a grave accent stands for the text before the match: a string of
\* this module cannot hold that character, so no value here contains it.)
RECURSIVE GetSubstitution(_, _, _)
GetSubstitution(r, matched, after) ==
    IF r = "" THEN ""
    ELSE IF Len(r) >= 2 /\ CharAt(r, 1) = "$" /\ CharAt(r, 2) \in {"$", "&", "'"}
    THEN (CASE CharAt(r, 2) = "$" -> "$"
            [] CharAt(r, 2) = "&" -> matched
            [] CharAt(r, 2) = "'" -> after)
         \o GetSubstitution(Slice(r, 3), matched, after)
    ELSE CharAt(r, 1) \o GetSubstitution(Slice(r, 2), matched, after)

\* The matches of p in s from position k on, left to right, each replaced.
RECURSIVE ReplaceFrom(_, _, _, _)
ReplaceFrom(s, p, r, k) ==
    LET rest == Slice(s, k)
        i == IndexOf(rest, p)
        at == k + i - 1
    IN  IF i = 0 THEN rest
        ELSE SubSeq(rest, 1, i - 1)
             \o GetSubstitution(r, p, Slice(s, at + Len(p)))
             \o ReplaceFrom(s, p, r, at + Len(p))

\* content.replace(/\{\{BASE_URL\}\}/g, value): every occurrence, left to right.
replaceAll(s, p, r) == ReplaceFrom(s, p, r, 1)

SchemaKey(type) == type \o "-open-api.json"

SchemaProcessorId(type) == type \o "SchemaProcessor"

schemaProcessor(targetConfig) ==
    LET type == targetConfig.type
        processedContent ==
            replaceAll(SchemaTemplates[type], "{{BASE_URL}}", targetConfig.config.baseUrl)
        schemaProcessorId ==
            toLowerCase(Sha256Hex10(StackName \o "-" \o type \o "-schema"))
        putObject ==
            [service |-> "S3", action |-> "putObject",
             parameters |-> [Bucket |-> SchemaBucketName, Key |-> SchemaKey(type),
                             Body |-> processedContent,
                             ContentType |-> "application/json"],
             physicalResourceId |-> [of |-> schemaProcessorId]]
    IN  AwsCustomResource({SchemaBucketId}, putObject, putObject,
            [service |-> "S3", action |-> "deleteObject",
             parameters |-> [Bucket |-> SchemaBucketName, Key |-> SchemaKey(type)]])

\* A variant that does not ask for a base URL.
generateProcessedSchemaUnvalidated(targetConfig) ==
    IF ~existsSync(targetConfig.type)
    THEN [thrown |-> "TemplateNotFound", resources |-> EmptyRecord]
    ELSE [thrown |-> "none",
          resources |-> SchemaProcessorId(targetConfig.type) :> schemaProcessor(targetConfig)]

generateProcessedSchema(targetConfig) ==
    IF ~Truthy(targetConfig.config.baseUrl)
    THEN [thrown |-> "BaseUrlRequired", resources |-> EmptyRecord]
    ELSE IF ~existsSync(targetConfig.type)
    THEN [thrown |-> "TemplateNotFound", resources |-> EmptyRecord]
    ELSE [thrown |-> "none",
          resources |-> SchemaProcessorId(targetConfig.type) :> schemaProcessor(targetConfig)]

(***************************************************************************)
(* McpGatewayStack                                                         *)
(***************************************************************************)
\* A variant without the default.
authenticationTypeAsGiven(p) == p.authenticationType

authenticationType(p) == OrElse(p.authenticationType, "JWT")

GatewayInstructions ==
    "This is an MCP Gateway with support for multiple integration targets."

SchemaBucket ==
    NativeResource("AWS::S3::Bucket", {},
        [bucketName |-> SchemaBucketName, autoDeleteObjects |-> TRUE,
         publicReadAccess |-> FALSE,
         policy |-> Statement({"s3:GetObject"}, {SchemaBucketArn \o "/*"},
                      {<<"StringEquals", "aws:SourceAccount", Account>>})])

s3BucketArns(p) ==
    <<SchemaBucketArn>>
    \o (IF Truthy(p.agentCoreSchemasBucket)
        THEN <<"arn:aws:s3:::" \o p.agentCoreSchemasBucket>> ELSE <<>>)

gatewayExecutionRole(p) ==
    addToPolicy(
        AgentCoreGatewayExecutionRole(
            [roleName |-> "McpGatewayExecRole-"
                            \o toUpperCase(Sha256Hex10(StackName \o "-execution-role")),
             enableSemanticSearch |-> p.enableSemanticSearch,
             s3BucketArns |-> s3BucketArns(p),
             lambdaFunctionArns |-> {}]),
        StackRoleStatement)

\* The props the stack hands to AgentCoreGateway: jwtAuthorizer is undefined
\* unless the authentication type is JWT and the user pool was constructed.
mcpGatewayProps(p) ==
    [gatewayName |-> OrElse(p.gatewayName, "McpGateway-c8a1b2d3"),
     description |-> OrElse(p.gatewayDescription,
                            "MCP Gateway with multiple integration targets"),
     executionRole |-> RoleArnToken,
     authenticationType |-> authenticationType(p),
     enableSemanticSearch |-> p.enableSemanticSearch,
     exceptionLevel |-> p.exceptionLevel,
     instructions |-> GatewayInstructions]
    @@ (IF authenticationType(p) = "JWT"
        THEN "jwtAuthorizer" :> createJwtAuthorizerConfig(AgentCoreCognitoUserPool)
        ELSE EmptyRecord)

CognitoOutputs ==
    {CognitoId \o "/" \o o :
        o \in {"UserPoolId", "UserPoolClientId", "UserPoolDomainUrl", "DiscoveryUrl"}}

\* The stack before the targets are processed: everything up to the
\* SchemaBucketName output, or the error the gateway's constructor threw.
StackBase(p) ==
    LET jwt == authenticationType(p) = "JWT"
        gateway == AgentCoreGateway(mcpGatewayProps(p))
        before ==
            [thrown |-> gateway.thrown,
             cognitoUserPool |-> jwt,
             integrationTargets |-> {},
             outputs |-> IF jwt THEN CognitoOutputs ELSE {},
             gatewayExecutionRole |-> gatewayExecutionRole(p),
             resources |-> SchemaBucketId :> SchemaBucket]
    IN  IF gateway.thrown # "none" THEN before
        ELSE [before EXCEPT
                !.resources = @ @@ gateway.resources,
                !.outputs = @ \cup {"McpGatewayId", "McpGatewayArn", "McpGatewayUrl",
                                    "AuthenticationType", "SchemaBucketName"}
                              \cup (IF jwt /\ before.cognitoUserPool
                                    THEN {"CognitoDiscoveryUrl"} ELSE {})]

TargetConstructName(type) == toUpperCase(CharAt(type, 1)) \o Slice(type, 2) \o "Target"

TargetOutputId(type) == type \o "TargetId"

\* The constructs already in the stack's scope: a second one of the same id throws.
ScopeIds(st) ==
    {SchemaBucketId, CognitoId, ExecutionRoleId, "McpGateway"}
    \cup st.outputs
    \cup {TargetConstructName(t) : t \in st.integrationTargets}
    \cup {SchemaProcessorId(t) :
            t \in {u \in st.integrationTargets : ~startsWith(u, "agentcore-")}}

Throw(st, error) == [st EXCEPT !.thrown = error]

\* The props of the IntegrationTarget of one enabled target configuration.
IntegrationTargetProps(p, targetConfig) ==
    IF startsWith(targetConfig.type, "agentcore-")
    THEN LET integrationName == replace(targetConfig.type, "agentcore-", "")
             schemasBucket == OrElse(p.agentCoreSchemasBucket,
                                     "amazonbedrockagentcore-built-sampleschemas")
         IN  [gateway |-> [gatewayId |-> GatewayIdToken],
              targetName |-> integrationName,
              description |-> integrationName \o " AgentCore built-in integration",
              openApiSchemaS3Uri |->
                 "s3://" \o schemasBucket \o "/" \o integrationName \o "-open-api.json",
              apiKey |-> targetConfig.config.apiKey,
              auth |-> [parameterName |-> "Authorization", prefix |-> "Basic"]]
    ELSE [gateway |-> [gatewayId |-> GatewayIdToken],
          targetName |-> targetConfig.type,
          description |-> targetConfig.type \o " REST API integration",
          openApiSchemaS3Uri |->
             "s3://" \o SchemaBucketName \o "/" \o SchemaKey(targetConfig.type),
          apiKey |-> targetConfig.config.apiKey,
          auth |-> targetConfig.config.auth]

\* The body of the forEach callback for a target that is enabled.
ProcessEnabledTarget(st, p, targetConfig) ==
    LET type == targetConfig.type
        custom == ~startsWith(type, "agentcore-")
        schema == IF custom THEN generateProcessedSchema(targetConfig)
                  ELSE [thrown |-> "none", resources |-> EmptyRecord]
        it == IntegrationTarget(TargetConstructName(type),
                                IntegrationTargetProps(p, targetConfig))
    IN  IF schema.thrown # "none" THEN Throw(st, schema.thrown)
        ELSE IF custom /\ SchemaProcessorId(type) \in ScopeIds(st)
        THEN Throw(st, "DuplicateConstruct")
        ELSE IF TargetConstructName(type) \in ScopeIds(st)
        THEN Throw(st, "DuplicateConstruct")
        ELSE IF it.thrown # "none" THEN Throw(st, it.thrown)
        ELSE IF TargetOutputId(type) \in ScopeIds(st)
        THEN Throw(st, "DuplicateConstruct")
        ELSE [st EXCEPT
                !.resources = @ @@ schema.resources @@ it.resources,
                !.integrationTargets = @ \cup {type},
                !.outputs = @ \cup {TargetOutputId(type)}]

\* A variant that does not look at the enabled flag.
ProcessTargetWhateverEnabled(st, p, targetConfig) ==
    ProcessEnabledTarget(st, p, targetConfig)

\* One iteration of the forEach over props.integrationTargets.
ProcessTarget(st, p, targetConfig) ==
    IF ~targetConfig.enabled THEN st
    ELSE ProcessEnabledTarget(st, p, targetConfig)

RECURSIVE ProcessTargets(_, _, _)
ProcessTargets(st, p, i) ==
    IF st.thrown # "none" \/ i > Len(p.integrationTargets) THEN st
    ELSE ProcessTargets(ProcessTarget(st, p, p.integrationTargets[i]), p, i + 1)

McpGatewayStack(p) == ProcessTargets(StackBase(p), p, 1)

(***************************************************************************)
(* The inputs: the props the entry point passes, and the revisions a       *)
(* redeployment makes to them (one setting changed, or none).              *)
(***************************************************************************)
AuthenticationTypes == {"JWT", "IAM", Undefined}
ApiKeys == {"key-1", "key-2"}
BaseUrls == {Undefined, "https://y.example"}
NoAuth == [parameterName |-> Undefined, prefix |-> Undefined]
Auths == {NoAuth, [parameterName |-> "X-Api-Key", prefix |-> "Bearer"],
          [parameterName |-> "X-Api-Key", prefix |-> Undefined]}
SchemasBuckets == {Undefined, "amazonbedrockagentcore-built-sampleschemas455e0815"}

TargetConfig(type, enabled, apiKey, baseUrl, auth) ==
    [type |-> type, enabled |-> enabled,
     config |-> [apiKey |-> apiKey, baseUrl |-> baseUrl, auth |-> auth]]

InitialTargetConfigs ==
    { TargetConfig("jira", TRUE, "key-1", "https://x.example", NoAuth),
      TargetConfig("snowflake", TRUE, Undefined, "https://y.example",
                   [parameterName |-> "X-Api-Key", prefix |-> "Bearer"]),
      TargetConfig("agentcore-jira", TRUE, "key-1", Undefined,
                   [parameterName |-> "X-Api-Key", prefix |-> "Bearer"]),
      TargetConfig("jira", TRUE, "key-1", Undefined, NoAuth),
      TargetConfig("slack", TRUE, "key-1", "https://x.example", NoAuth) }

TargetLists ==
    UNION {[1..n -> InitialTargetConfigs] : n \in 0..MaxTargets}

InitialProps ==
    [authenticationType : {"JWT", "IAM"},
     gatewayName : {"McpGateway"},
     gatewayDescription : {"MCP Gateway"},
     enableSemanticSearch : {FALSE},
     exceptionLevel : {Undefined},
     agentCoreSchemasBucket : {Undefined},
     integrationTargets : TargetLists]

TargetRevisions(tc) ==
    {[tc EXCEPT !.enabled = ~@]}
    \cup {[tc EXCEPT !.config.apiKey = k] : k \in ApiKeys}
    \cup {[tc EXCEPT !.config.baseUrl = u] : u \in BaseUrls}
    \cup {[tc EXCEPT !.config.auth = a] : a \in Auths}

Revisions(p) ==
    {p}
    \cup {[p EXCEPT !.authenticationType = a] : a \in AuthenticationTypes}
    \cup {[p EXCEPT !.enableSemanticSearch = ~@]}
    \cup {[p EXCEPT !.agentCoreSchemasBucket = b] : b \in SchemasBuckets}
    \cup UNION {{[p EXCEPT !.integrationTargets[i] = tc] :
                    tc \in TargetRevisions(p.integrationTargets[i])} :
                i \in DOMAIN p.integrationTargets}

(***************************************************************************)
(* The provisioning engine and the control plane.                          *)
(***************************************************************************)
Template == stack.resources

Exists(r) == r \in DOMAIN applied

\* The execution role and the user pool: the engine provisions them ahead of
\* the resources that refer to them, with no call of this program's making.
Prerequisites == {ExecutionRoleId, CognitoId}

\* r exists as the template defines it.
Settled(r) ==
    \/ r \in Prerequisites
    \/ Exists(r) /\ applied[r].definition = Template[r]

AllSettled == \A r \in DOMAIN Template : Settled(r)

\* r is next in some order the dependency edges allow.
Ready(r) ==
    /\ r \in DOMAIN Template
    /\ ~Settled(r)
    /\ \A d \in Template[r].dependsOn : Settled(d)

\* r can be deleted: nothing that exists depends on it.
Removable(r) ==
    /\ Exists(r)
    /\ \A x \in DOMAIN applied : r \notin applied[x].definition.dependsOn
    /\ \/ txn = "delete"
       \/ txn = "update" /\ r \notin DOMAIN Template /\ AllSettled

IsCustom(def) == def.type = "Custom::AWS"

\* The name under which the secret store or the control plane holds the
\* entity; creating a second entity of the same name is rejected.
RemoteName(r, def) ==
    IF def.type = "AWS::SecretsManager::Secret"
    THEN <<"secret", def.properties.secretName>>
    ELSE IF IsCustom(def)
            /\ def.onCreate.action \in {"createApiKeyCredentialProvider", "CreateGatewayTarget"}
    THEN <<def.onCreate.action, def.onCreate.parameters.name>>
    ELSE <<"resource", r>>

NameTaken(r) ==
    \E x \in DOMAIN applied :
        x # r /\ RemoteName(x, applied[x].definition) = RemoteName(r, Template[r])

\* The parameters as sent: the physical-id reference and the gateway's
\* response field are resolved when the call is made.
ResolveParameters(parameters, physicalId) ==
    [k \in DOMAIN parameters |->
        IF k \in {"gatewayIdentifier", "targetId", "name"}
           /\ parameters[k] = PhysicalResourceIdReference
        THEN physicalId
        ELSE IF k = "gatewayIdentifier" /\ parameters[k] = GatewayIdToken
        THEN applied[GatewayId].data.gatewayId
        ELSE parameters[k]]

Issue(call, physicalId, status) ==
    [action |-> call.action,
     parameters |-> ResolveParameters(call.parameters, physicalId),
     status |-> status]

NativeOperation(def, operation, status) ==
    [action |-> def.type \o ":" \o operation, parameters |-> def.properties,
     status |-> status]

GatewayIds == {"mcpgateway-7f3a9c21e0", "mcpgateway-c21e04b5d8"}

\* What the control plane answers to an accepted call.
Response(sent) ==
    CASE sent.action = "UpdateGateway" ->
            [gatewayId |-> sent.parameters.gatewayIdentifier]
      [] sent.action = "CreateGatewayTarget" ->
            [targetId |-> "T-" \o sent.parameters.name]
      [] sent.action = "UpdateGatewayTarget" ->
            [targetId |-> sent.parameters.targetId]
      [] sent.action = "createApiKeyCredentialProvider" ->
            [name |-> sent.parameters.name]
      [] OTHER -> EmptyRecord

\* What it may answer to a gateway call: the identifier of a gateway it
\* creates is its own choice.
GatewayResponses(sent) ==
    IF sent.action = "CreateGateway"
    THEN {[gatewayId |-> id] : id \in GatewayIds}
    ELSE {Response(sent)}

\* The physical id the custom resource takes from a call and its response.
PhysicalId(call, response) ==
    IF "fromResponse" \in DOMAIN call.physicalResourceId
    THEN response[call.physicalResourceId.fromResponse]
    ELSE call.physicalResourceId.of

Record(r, sent) ==
    IF r \in DOMAIN lastCall THEN [lastCall EXCEPT ![r] = sent] ELSE lastCall @@ (r :> sent)

Put(r, entry) ==
    IF Exists(r) THEN [applied EXCEPT ![r] = entry] ELSE applied @@ (r :> entry)

Drop(r) == [x \in DOMAIN applied \ {r} |-> applied[x]]

Entry(physicalId, def, data) ==
    [physicalId |-> physicalId, definition |-> def, data |-> data]

Init ==
    /\ props \in InitialProps
    /\ stack = McpGatewayStack(props)
    /\ txn = IF stack.thrown = "none" THEN "create" ELSE "idle"
    /\ applied = EmptyRecord
    /\ gwState = "absent"
    /\ gwId = Undefined
    /\ lastCall = EmptyRecord
    /\ redeploys = 0
    /\ input = EmptyRecord
    /\ output = EmptyRecord

\* The configuration of a deployed stack is revised and the application is
\* run again: the constructor runs, and when it does not throw a transaction
\* starts.  (A first run that throws ends there: running again with another
\* configuration is another first run.)
Synth(p) ==
    /\ txn = "idle"
    /\ applied # EmptyRecord
    /\ redeploys < MaxRedeploys
    /\ props' = p
    /\ stack' = McpGatewayStack(p)
    /\ txn' = IF stack'.thrown # "none" THEN "idle"
              ELSE IF applied = EmptyRecord THEN "create" ELSE "update"
    /\ redeploys' = redeploys + 1
    /\ UNCHANGED <<input, output, applied, gwState, gwId, lastCall>>

\* How the control plane may answer the create call of r: a name already
\* taken is rejected, and a target registration may be rejected for reasons
\* of its own.
CreateStatuses(r) ==
    IF NameTaken(r) THEN {"rejected"}
    ELSE IF Template[r].onCreate.action = "CreateGatewayTarget" THEN {"ok", "rejected"}
    ELSE {"ok"}

\* A variant that takes a rejected create call for a success.
AfterCreateIgnoringErrors(r, sent, entry) == Put(r, entry)

\* The resources after the create call of r: the handlers name no error to
\* ignore, so a rejected call creates nothing.
AfterCreate(r, sent, entry) ==
    IF sent.status = "rejected" THEN applied ELSE Put(r, entry)

\* A resource the template adds is created; a rejected call fails the
\* transaction.
CreateResource(r) ==
    /\ txn \in {"create", "update"}
    /\ r # GatewayId
    /\ Ready(r) /\ ~Exists(r)
    /\ \E status \in CreateStatuses(r) :
         LET def == Template[r]
             sent == IF IsCustom(def) THEN Issue(def.onCreate, Undefined, status)
                     ELSE NativeOperation(def, "Create", status)
             response == Response(sent)
             physicalId == IF IsCustom(def) THEN PhysicalId(def.onCreate, response)
                           ELSE RemoteName(r, def)[2]
         IN  /\ lastCall' = Record(r, sent)
             /\ applied' = AfterCreate(r, sent, Entry(physicalId, def, response))
             /\ txn' = IF status = "rejected" THEN "failed" ELSE txn
    /\ UNCHANGED <<input, output, props, stack, gwState, gwId, redeploys>>

\* A resource whose definition changed is updated in place; a custom
\* resource with no onUpdate call makes no call and keeps its physical id.
UpdateResource(r) ==
    /\ txn = "update"
    /\ r # GatewayId
    /\ Ready(r) /\ Exists(r)
    /\ LET def == Template[r]
           old == applied[r]
       IN  IF IsCustom(def) /\ def.onUpdate = NoCall
           THEN /\ applied' = Put(r, Entry(old.physicalId, def, old.data))
                /\ UNCHANGED lastCall
           ELSE LET sent == IF IsCustom(def) THEN Issue(def.onUpdate, old.physicalId, "ok")
                            ELSE NativeOperation(def, "Update", "ok")
                    response == Response(sent)
                    physicalId == IF IsCustom(def) THEN PhysicalId(def.onUpdate, response)
                                  ELSE old.physicalId
                IN  /\ lastCall' = Record(r, sent)
                    /\ applied' = Put(r, Entry(physicalId, def, response))
    /\ UNCHANGED <<input, output, props, stack, txn, gwState, gwId, redeploys>>

\* A resource the template no longer holds, or any resource on teardown,
\* is deleted once nothing that exists depends on it.
DeleteResource(r) ==
    /\ r # GatewayId
    /\ Removable(r)
    /\ LET def == applied[r].definition
           sent == IF IsCustom(def) THEN Issue(def.onDelete, applied[r].physicalId, "ok")
                   ELSE NativeOperation(def, "Delete", "ok")
       IN  lastCall' = Record(r, sent)
    /\ applied' = Drop(r)
    /\ UNCHANGED <<input, output, props, stack, txn, gwState, gwId, redeploys>>

\* The gateway's custom resource: the call is issued, and answered later.
GatewayCreate ==
    /\ txn \in {"create", "update"}
    /\ Ready(GatewayId) /\ ~Exists(GatewayId)
    /\ gwState = "absent"
    /\ lastCall' = Record(GatewayId, Issue(Template[GatewayId].onCreate, Undefined, "pending"))
    /\ gwState' = "creating"
    /\ UNCHANGED <<input, output, props, stack, txn, applied, gwId, redeploys>>

GatewayUpdate ==
    /\ txn = "update"
    /\ Ready(GatewayId) /\ Exists(GatewayId)
    /\ gwState = "active"
    /\ lastCall' = Record(GatewayId,
            Issue(Template[GatewayId].onUpdate, applied[GatewayId].physicalId, "pending"))
    /\ gwState' = "updating"
    /\ UNCHANGED <<input, output, props, stack, txn, applied, gwId, redeploys>>

GatewayDelete ==
    /\ Removable(GatewayId)
    /\ gwState = "active"
    /\ lastCall' = Record(GatewayId,
            Issue(applied[GatewayId].definition.onDelete, applied[GatewayId].physicalId,
                  "pending"))
    /\ gwState' = "deleting"
    /\ UNCHANGED <<input, output, props, stack, txn, applied, gwId, redeploys>>

\* The control plane answers the gateway call in flight.
GatewayDone ==
    /\ gwState \in {"creating", "updating", "deleting"}
    /\ LET sent == [lastCall[GatewayId] EXCEPT !.status = "ok"]
           def == Template[GatewayId]
       IN  /\ lastCall' = Record(GatewayId, sent)
           /\ \E response \in GatewayResponses(sent) :
                /\ CASE gwState = "creating" ->
                          applied' = Put(GatewayId,
                             Entry(PhysicalId(def.onCreate, response), def, response))
                     [] gwState = "updating" ->
                          applied' = Put(GatewayId,
                             Entry(PhysicalId(def.onUpdate, response), def, response))
                     [] gwState = "deleting" -> applied' = Drop(GatewayId)
                /\ gwId' = IF sent.action = "CreateGateway" /\ gwId = Undefined
                           THEN response.gatewayId ELSE gwId
    /\ gwState' = IF gwState = "deleting" THEN "absent" ELSE "active"
    /\ UNCHANGED <<input, output, props, stack, txn, redeploys>>

\* The transaction completes.
Finish ==
    /\ \/ /\ txn \in {"create", "update"}
          /\ AllSettled
          /\ DOMAIN applied = DOMAIN Template
          /\ txn' = "idle"
       \/ /\ txn = "delete"
          /\ applied = EmptyRecord
          /\ txn' = "deleted"
    /\ UNCHANGED <<input, output, props, stack, applied, gwState, gwId, lastCall, redeploys>>

\* The stack is deleted.  The application is run for this too, so a
\* configuration the constructor rejects deletes nothing.  (What follows a
\* failed transaction is the engine's own rollback policy, which is not this
\* program's: the model stops there.)
Teardown ==
    /\ txn = "idle"
    /\ stack.thrown = "none"
    /\ applied # EmptyRecord
    /\ txn' = "delete"
    /\ UNCHANGED <<input, output, props, stack, applied, gwState, gwId, lastCall, redeploys>>

ResourceIds == DOMAIN Template \cup DOMAIN applied

Next ==
    \/ \E p \in Revisions(props) : Synth(p)
    \/ \E r \in ResourceIds : CreateResource(r)
    \/ \E r \in ResourceIds : UpdateResource(r)
    \/ \E r \in ResourceIds : DeleteResource(r)
    \/ GatewayCreate
    \/ GatewayUpdate
    \/ GatewayDelete
    \/ GatewayDone
    \/ Finish
    \/ Teardown

Spec == Init /\ [][Next]_vars

(***************************************************************************)
(* The two text functions of the program applied alone: the template       *)
(* substitution of generateProcessedSchema on any template text and value, *)
(* and the location parsing of IntegrationTarget on any location string.   *)
(***************************************************************************)
MaxPieces == 2

RECURSIVE Join(_)
Join(q) == IF q = <<>> THEN "" ELSE Head(q) \o Join(Tail(q))

\* The contents a template file can have: texts with zero, one or more
\* placeholders and with fragments of one.
TemplatePieces == {"{{BASE_URL}}", "/a ", "{{", "}}", "BASE_URL"}
TemplateContents ==
    {Join(q) : q \in UNION {[1..n -> TemplatePieces] : n \in 0..MaxPieces}}

\* The values config.baseUrl can have when the substitution runs (truthy).
SubstitutionValues ==
    {"https://x", "https://x/$&", "a$$b", "$'", "$1", "{{BASE_URL}}"}

\* The location strings IntegrationTarget can be given.
LocationSchemes == {"s3://", "s3:/", "S3://", "https://", "xs3://", ""}
LocationBuckets == {"", "b", "bucket-name"}
LocationKeys == {"", "k", "key/path.json", "/k", "a\nb"}
Locations ==
    {sch \o b \o "/" \o k :
        sch \in LocationSchemes, b \in LocationBuckets, k \in LocationKeys}
    \cup {"s3://bucket-name", "bucket-name/key/path.json"}

\* The target entries of a configuration document: enabled or not.
ConfigTargets ==
    InitialTargetConfigs \cup {[tc EXCEPT !.enabled = FALSE] : tc \in InitialTargetConfigs}

\* The configuration documents (config.json) the entry point can load; a
\* setting that is absent reads as undefined (enableSemanticSearch: as false).
ConfigDocuments ==
    [gateway : [name : {Undefined},
                description : {Undefined},
                enableSemanticSearch : {FALSE, TRUE},
                exceptionLevel : {Undefined},
                authenticationType : {"IAM", "JWT", "iam", Undefined},
                agentCoreSchemasBucket : {Undefined}],
     integrationTargets :
         UNION {[1..n -> ConfigTargets] : n \in 0..MaxTargets}]

FnInputs ==
    {[fn |-> "replace", templateContent |-> t, baseUrl |-> v] :
        t \in TemplateContents, v \in SubstitutionValues}
    \cup {[fn |-> "match", openApiSchemaS3Uri |-> u] : u \in Locations}
    \cup {[fn |-> "main", config |-> c] : c \in ConfigDocuments}

InitFn ==
    /\ input \in FnInputs
    /\ output = EmptyRecord
    /\ props = EmptyRecord
    /\ stack = EmptyRecord
    /\ txn = "idle"
    /\ applied = EmptyRecord
    /\ gwState = "absent"
    /\ gwId = Undefined
    /\ lastCall = EmptyRecord
    /\ redeploys = 0

\* const processedContent = templateContent.replace(/\{\{BASE_URL\}\}/g, baseUrl)
Substitute ==
    /\ input.fn = "replace"
    /\ output = EmptyRecord
    /\ output' = [processedContent |->
                    replaceAll(input.templateContent, "{{BASE_URL}}", input.baseUrl)]
    /\ UNCHANGED <<input, props, stack, txn, applied, gwState, gwId, lastCall, redeploys>>

\* new IntegrationTarget(this, "jiraTarget", {..., openApiSchemaS3Uri}): the
\* match of the location, and the construct or the error it ends with.
ParseLocation ==
    /\ input.fn = "match"
    /\ output = EmptyRecord
    /\ output' =
         [s3UriMatch |-> s3UriMatch(input.openApiSchemaS3Uri),
          construct |->
             IntegrationTarget("jiraTarget",
                 [gateway |-> [gatewayId |-> GatewayIdToken],
                  targetName |-> "jira",
                  description |-> "jira REST API integration",
                  openApiSchemaS3Uri |-> input.openApiSchemaS3Uri,
                  apiKey |-> "key-1",
                  auth |-> NoAuth])]
    /\ UNCHANGED <<input, props, stack, txn, applied, gwState, gwId, lastCall, redeploys>>

\* The props the entry point builds from the configuration document.
EntryPointProps(config) ==
    LET gatewayConfig == config.gateway
    IN  [gatewayName |-> OrElse(gatewayConfig.name, "McpGateway"),
         gatewayDescription |-> OrElse(gatewayConfig.description, "MCP Gateway"),
         enableSemanticSearch |-> (gatewayConfig.enableSemanticSearch \/ FALSE),
         exceptionLevel |->
            IF gatewayConfig.exceptionLevel = "DEBUG" THEN "DEBUG" ELSE Undefined,
         authenticationType |->
            IF gatewayConfig.authenticationType = "IAM" THEN "IAM" ELSE "JWT",
         agentCoreSchemasBucket |-> gatewayConfig.agentCoreSchemasBucket,
         integrationTargets |-> config.integrationTargets]

\* The props built by the entry point of bin/: it reads neither
\* authenticationType nor agentCoreSchemasBucket.
BinEntryPointProps(config) ==
    [EntryPointProps(config) EXCEPT
        !.authenticationType = Undefined, !.agentCoreSchemasBucket = Undefined]

\* The entry point runs on a configuration document: the props it builds
\* and the stack constructed from them.
EntryPoint ==
    /\ input.fn = "main"
    /\ output = EmptyRecord
    /\ output' = [entry |-> "mcp-gateway",
                  props |-> EntryPointProps(input.config),
                  stack |-> McpGatewayStack(EntryPointProps(input.config))]
    /\ UNCHANGED <<input, props, stack, txn, applied, gwState, gwId, lastCall, redeploys>>

BinEntryPoint ==
    /\ input.fn = "main"
    /\ output = EmptyRecord
    /\ output' = [entry |-> "bin/mcp-gateway",
                  props |-> BinEntryPointProps(input.config),
                  stack |-> McpGatewayStack(BinEntryPointProps(input.config))]
    /\ UNCHANGED <<input, props, stack, txn, applied, gwState, gwId, lastCall, redeploys>>

NextFn == Substitute \/ ParseLocation \/ EntryPoint \/ BinEntryPoint

SpecFn == InitFn /\ [][NextFn]_vars

(***************************************************************************)
(* Properties.                                                             *)
(***************************************************************************)
\* The authentication mode of the latest synthesis: IAM when the
\* configuration says so, JWT when it says JWT or nothing.
Mode == IF props.authenticationType = "IAM" THEN "IAM" ELSE "JWT"

GatewayCalled == GatewayId \in DOMAIN lastCall

\* The targets of the configuration the constructor has to process.
EnabledTargets ==
    {props.integrationTargets[i] :
        i \in {j \in DOMAIN props.integrationTargets : props.integrationTargets[j].enabled}}

\* C1, as the specification states it: in mode IAM the stack is constructed
\* (the gateway's constructor does not throw) and the CreateGateway call
\* carries no JWT authorizer block and no JWT authorizer type; in mode JWT the
\* CreateGateway call carries the block.  The code does not do this: with no
\* jwtAuthorizer the gateway's constructor throws.
C1_AuthorizerSelectedByMode ==
    /\ Mode = "IAM" => stack.thrown # "TypeError"
    /\ (txn = "create" /\ GatewayCalled) =>
          LET sent == lastCall[GatewayId].parameters
          IN  IF Mode = "JWT"
              THEN "authorizerConfiguration" \in DOMAIN sent
              ELSE /\ "authorizerConfiguration" \notin DOMAIN sent
                   /\ sent.authorizerType # "CUSTOM_JWT"


\* A custom-schema target the constructor cannot process: no base URL, or no
\* schema template of its type.
BadCustomTarget(tc) ==
    /\ ~startsWith(tc.type, "agentcore-")
    /\ tc.config.baseUrl \in {Undefined, ""} \/ tc.type \notin DOMAIN SchemaTemplates

\* C2, as the specification states it: a configuration with an enabled
\* custom-schema target that has no base URL or no schema template fails
\* with the validation error, and the run issues no call (no transaction is
\* started; on a first run no call was ever issued).  In mode IAM the error is
\* the TypeError of the gateway's constructor instead (C1).
C2_BadTargetFailsValidation ==
    (\E tc \in EnabledTargets : BadCustomTarget(tc)) =>
        /\ stack.thrown \in {"BaseUrlRequired", "TemplateNotFound"}
        /\ txn = "idle"
        /\ redeploys = 0 => lastCall = EmptyRecord

\* C3: the Cognito user pool is constructed if and only if the mode is JWT,
\* and in mode IAM the stack has no discovery-URL output (neither the stack's
\* CognitoDiscoveryUrl nor the outputs of the user pool construct).
C3_BinderIffJwt ==
    /\ stack.cognitoUserPool <=> Mode = "JWT"
    /\ Mode = "IAM" =>
          stack.outputs \cap ({"CognitoDiscoveryUrl"} \cup CognitoOutputs) = {}

C3_Witness ==
    /\ props.authenticationType = Undefined
    /\ txn = "update"
    /\ stack.cognitoUserPool
    /\ "CognitoDiscoveryUrl" \in stack.outputs

\* C4: in mode JWT the authorizer block of the CreateGateway call and of every
\* UpdateGateway call is exactly the user pool's discovery URL and an
\* allowed-client list whose single element is the user pool's client id.
C4_AuthorizerBlockFromBinder ==
    (GatewayCalled /\ lastCall[GatewayId].action \in {"CreateGateway", "UpdateGateway"}) =>
        lastCall[GatewayId].parameters.authorizerConfiguration =
            [customJWTAuthorizer |->
                [discoveryUrl |-> AgentCoreCognitoUserPool.discoveryUrl,
                 allowedClients |-> <<AgentCoreCognitoUserPool.clientId>>]]

C4_Witness ==
    /\ GatewayCalled
    /\ lastCall[GatewayId].action = "UpdateGateway"
    /\ lastCall[GatewayId].status = "ok"
    /\ "allowedClients" \in
          DOMAIN lastCall[GatewayId].parameters.authorizerConfiguration.customJWTAuthorizer

\* The kinds of resource of an integration target, and the construct a
\* resource belongs to (the part of its path before the first "/").
IsSecret(def) == def.type = "AWS::SecretsManager::Secret"
IsProvider(def) == def.onCreate.action = "createApiKeyCredentialProvider"
IsTarget(def) == def.onCreate.action = "CreateGatewayTarget"

ConstructOf(r) == SubSeq(r, 1, IndexOf(r, "/") - 1)

\* The resources of r's construct that exist and are of the kind K.
SecretsOf(r) ==
    {x \in DOMAIN applied : ConstructOf(x) = ConstructOf(r) /\ IsSecret(applied[x].definition)}

ProvidersOf(r) ==
    {x \in DOMAIN applied : ConstructOf(x) = ConstructOf(r) /\ IsProvider(applied[x].definition)}

\* A call for r is issued in this step.
Issued(r) ==
    /\ r \in DOMAIN lastCall'
    /\ r \in DOMAIN lastCall => lastCall'[r] # lastCall[r]

\* C5: whatever order the engine takes, a CreateGatewayTarget call is issued
\* only when the secret and the credential provider of that target exist and
\* the gateway has been created (it exists and is active).
C5_TargetAfterSecretProviderGateway ==
    [][\A r \in DOMAIN lastCall' :
          (Issued(r) /\ lastCall'[r].action = "CreateGatewayTarget") =>
              /\ SecretsOf(r) # {}
              /\ ProvidersOf(r) # {}
              /\ Exists(GatewayId) /\ gwState = "active" /\ gwId # Undefined]_vars

C5_Witness ==
    \E r \in DOMAIN applied :
        /\ IsTarget(applied[r].definition)
        /\ lastCall[r].action = "CreateGatewayTarget"
        /\ lastCall[r].status = "ok"
        /\ SecretsOf(r) # {} /\ ProvidersOf(r) # {}

\* The configuration is one enabled custom-schema target the constructor
\* accepts.
OneCustomTarget ==
    /\ Len(props.integrationTargets) = 1
    /\ props.integrationTargets[1].enabled
    /\ ~startsWith(props.integrationTargets[1].type, "agentcore-")
    /\ stack.thrown = "none"

TemplateSecretsOf(r) ==
    {x \in DOMAIN Template : ConstructOf(x) = ConstructOf(r) /\ IsSecret(Template[x])}

TemplateProvidersOf(r) ==
    {x \in DOMAIN Template : ConstructOf(x) = ConstructOf(r) /\ IsProvider(Template[x])}

\* C6, as the specification states it: for one enabled custom target the
\* order is secret, credential provider, target, each step with an edge on
\* every earlier one: the credential provider has an edge on the secret and
\* is never registered while the secret does not exist.
C6_SecretThenProviderThenTarget ==
    (OneCustomTarget /\ txn = "create") =>
        \A r \in DOMAIN Template :
            /\ IsProvider(Template[r]) =>
                  /\ TemplateSecretsOf(r) \subseteq Template[r].dependsOn
                  /\ Exists(r) => SecretsOf(r) # {}
            /\ IsTarget(Template[r]) =>
                  /\ TemplateSecretsOf(r) \cup TemplateProvidersOf(r)
                        \subseteq Template[r].dependsOn
                  /\ Exists(r) => SecretsOf(r) # {} /\ ProvidersOf(r) # {}

\* C6, amended: the target has an edge on its secret and on its credential
\* provider, and is registered only when both exist; the credential provider
\* has no edge on the secret, so the two are created in either order.  (For
\* every custom-schema target of every configuration.)
C6_SecretAndProviderThenTarget ==
    (stack.thrown = "none" /\ txn = "create") =>
        \A r \in DOMAIN Template :
            /\ IsProvider(Template[r]) => Template[r].dependsOn = {}
            /\ (IsTarget(Template[r]) /\ SchemaBucketId \in Template[r].dependsOn) =>
                  /\ TemplateSecretsOf(r) # {} /\ TemplateProvidersOf(r) # {}
                  /\ TemplateSecretsOf(r) \cup TemplateProvidersOf(r)
                        \subseteq Template[r].dependsOn
                  /\ Exists(r) => SecretsOf(r) # {} /\ ProvidersOf(r) # {}

C6_Witness ==
    /\ OneCustomTarget /\ txn = "create"
    /\ \E r \in DOMAIN applied :
          /\ IsTarget(applied[r].definition)
          /\ SchemaBucketId \in applied[r].definition.dependsOn
          /\ lastCall[r].status = "ok"

\* C7, as the specification states it: when a redeployment has completed,
\* the gateway is keyed as before and each secret and each credential
\* provider holds the api key of the new configuration.  The code does not
\* do this: the credential provider has no update call.
C7_RedeployUpdatesInPlace ==
    (txn = "idle" /\ stack.thrown = "none" /\ redeploys > 0) =>
        /\ Exists(GatewayId) => applied[GatewayId].physicalId = gwId
        /\ \A r \in DOMAIN applied :
              /\ IsSecret(Template[r]) =>
                    lastCall[r].parameters.secretString = Template[r].properties.secretString
              /\ IsProvider(Template[r]) =>
                    lastCall[r].parameters.apiKey = Template[r].onCreate.parameters.apiKey

\* The names of the secret, the credential provider and the target
\* registration of one target configuration.
Names(p, tc) ==
    LET ip == IntegrationTargetProps(p, tc)
    IN  <<secretName(ip), providerName(ip), gatewayTargetName(ip)>>

\* C8: the names of a target's secret, credential provider and registration
\* are those of every other target configuration of the same type - at
\* another position of the list, or in a re-run with any one other input
\* changed (compared when the first run has synthesized) - and what a re-run
\* defines under a resource id has the name of what is deployed under it.
C8_NamesDependOnTypeOnly ==
    /\ lastCall = EmptyRecord =>
          /\ \A i, j \in DOMAIN props.integrationTargets :
                props.integrationTargets[i].type = props.integrationTargets[j].type =>
                    Names(props, props.integrationTargets[i])
                        = Names(props, props.integrationTargets[j])
          /\ \A p \in Revisions(props) : \A i \in DOMAIN props.integrationTargets :
                Names(p, p.integrationTargets[i]) = Names(props, props.integrationTargets[i])
    /\ \A r \in DOMAIN applied \cap DOMAIN Template :
          RemoteName(r, applied[r].definition) = RemoteName(r, Template[r])

C8_Witness ==
    /\ txn = "idle" /\ redeploys > 0
    /\ \E r \in DOMAIN applied :
          /\ IsSecret(applied[r].definition)
          /\ lastCall[r].action = "AWS::SecretsManager::Secret:Update"
          /\ lastCall[r].parameters.secretString = "key-2"

\* C9: every UpdateGateway and DeleteGateway call carries the identifier the
\* control plane returned to CreateGateway, and the gateway's resource stays
\* keyed by it.
C9_GatewayKeyedByCreatedId ==
    /\ (GatewayCalled /\ lastCall[GatewayId].action \in {"UpdateGateway", "DeleteGateway"}) =>
          /\ gwId \in GatewayIds
          /\ lastCall[GatewayId].parameters.gatewayIdentifier = gwId
    /\ Exists(GatewayId) => applied[GatewayId].physicalId = gwId

C9_Witness ==
    /\ GatewayCalled
    /\ lastCall[GatewayId].action = "DeleteGateway"
    /\ lastCall[GatewayId].status = "ok"
    /\ props.enableSemanticSearch
    /\ gwId = "mcpgateway-c21e04b5d8"

\* A gateway call is issued in this step.
GatewayCallIssued == Issued(GatewayId) /\ lastCall'[GatewayId].status = "pending"

\* C10: the gateway's state changes only along absent -> creating -> active
\* in a deployment, active -> updating -> active in a redeployment that
\* changes its parameters, active -> deleting -> absent in a teardown; a
\* CreateGateway call is issued only for an absent gateway, an UpdateGateway
\* or DeleteGateway call only for an active one, and a redeployment that
\* leaves the gateway's parameters as they are issues no gateway call.
C10_GatewayLifecycle ==
    [][/\ gwState' # gwState =>
            \/ gwState = "absent" /\ gwState' = "creating" /\ txn = "create"
            \/ gwState = "creating" /\ gwState' = "active"
            \/ /\ gwState = "active" /\ gwState' = "updating" /\ txn = "update"
               /\ Template[GatewayId].onCreate.parameters
                    # applied[GatewayId].definition.onCreate.parameters
            \/ gwState = "updating" /\ gwState' = "active"
            \/ gwState = "active" /\ gwState' = "deleting" /\ txn = "delete"
            \/ gwState = "deleting" /\ gwState' = "absent"
       /\ GatewayCallIssued =>
            /\ gwState' # gwState
            /\ lastCall'[GatewayId].action = "CreateGateway" => gwState = "absent"
            /\ lastCall'[GatewayId].action \in {"UpdateGateway", "DeleteGateway"} =>
                  gwState = "active"
       /\ (txn = "update" /\ Exists(GatewayId)
             /\ Template[GatewayId].onCreate.parameters
                    = applied[GatewayId].definition.onCreate.parameters) =>
            ~Issued(GatewayId)]_vars

C10_Witness ==
    /\ txn = "idle" /\ redeploys > 0 /\ stack.thrown = "none"
    /\ gwState = "active"
    /\ lastCall[GatewayId].action = "CreateGateway"
    /\ \E r \in DOMAIN lastCall : lastCall[r].action = "UpdateGatewayTarget"

IsSchemaObject(def) == def.onCreate.action = "putObject"
IsBucket(def) == def.type = "AWS::S3::Bucket"

\* The resources of kind target that exist, and those of r's construct.
TargetsOf(r) ==
    {x \in DOMAIN applied : ConstructOf(x) = ConstructOf(r) /\ IsTarget(applied[x].definition)}

\* r, which exists, is deleted in this step (for the gateway: its delete
\* call is issued).
Deleted(r) ==
    IF r = GatewayId THEN gwState = "active" /\ gwState' = "deleting"
    ELSE r \notin DOMAIN applied'

\* C11: on teardown a resource is deleted only when nothing that exists
\* depends on it: the DeleteGateway call is issued when no target
\* registration exists, the bucket is deleted when no schema object exists,
\* a secret or a credential provider is deleted when the target registration
\* of its construct no longer exists.
C11_TeardownInReverseOrder ==
    [][txn = "delete" =>
         \A r \in DOMAIN applied :
            Deleted(r) =>
               /\ \A x \in DOMAIN applied : r \notin applied[x].definition.dependsOn
               /\ r = GatewayId =>
                    \A x \in DOMAIN applied : ~IsTarget(applied[x].definition)
               /\ IsBucket(applied[r].definition) =>
                    \A x \in DOMAIN applied : ~IsSchemaObject(applied[x].definition)
               /\ (IsSecret(applied[r].definition) \/ IsProvider(applied[r].definition)) =>
                    TargetsOf(r) = {}]_vars

C11_Witness ==
    /\ txn = "deleted"
    /\ lastCall[GatewayId].action = "DeleteGateway"
    /\ lastCall[SchemaBucketId].action = "AWS::S3::Bucket:Delete"
    /\ \E r \in DOMAIN lastCall : lastCall[r].action = "DeleteGatewayTarget"
    /\ \E r \in DOMAIN lastCall : lastCall[r].action = "deleteObject"
    /\ \E r \in DOMAIN lastCall : lastCall[r].action = "deleteApiKeyCredentialProvider"
    /\ \E r \in DOMAIN lastCall : lastCall[r].action = "AWS::SecretsManager::Secret:Delete"

\* C12: when the control plane rejects a target's create call the
\* transaction fails, the rejected registration is not applied and every
\* resource that exists stays as it is; from the failed transaction on no
\* call is issued (a gateway call in flight is answered) and nothing that
\* exists is deleted or changed (no retry, no rollback).
C12_RejectedTargetFailsDeployment ==
    [][/\ txn = "failed" =>
            /\ txn' = "failed"
            /\ \A r \in DOMAIN applied : r \in DOMAIN applied' /\ applied'[r] = applied[r]
            /\ \A r \in DOMAIN lastCall' :
                  Issued(r) => /\ r \in DOMAIN lastCall
                               /\ lastCall[r].status = "pending"
                               /\ lastCall'[r] = [lastCall[r] EXCEPT !.status = "ok"]
       /\ \A r \in DOMAIN lastCall' :
            (Issued(r) /\ lastCall'[r].status = "rejected") =>
                /\ txn' = "failed"
                /\ r \notin DOMAIN applied'
                /\ applied' = applied]_vars

C12_Witness ==
    /\ txn = "failed"
    /\ \E r \in DOMAIN lastCall :
          /\ lastCall[r].action = "CreateGatewayTarget"
          /\ lastCall[r].status = "rejected"
          /\ ~NameTaken(r)
          /\ r \notin DOMAIN applied
          /\ \E x \in DOMAIN applied :
                /\ IsTarget(applied[x].definition)
                /\ lastCall[x].action = "CreateGatewayTarget"
                /\ lastCall[x].status = "ok"

\* The grants the configuration asks for: log writes, tracing,
\* namespace-conditioned metrics, object reads on the supplied buckets,
\* function invocation, search synchronization with semantic search.
ConfiguredGrant(s) ==
    \/ s.actions \subseteq {"logs:DescribeLogStreams", "logs:CreateLogGroup",
                            "logs:CreateLogStream", "logs:PutLogEvents",
                            "logs:DescribeLogGroups"}
    \/ s.actions \subseteq {"xray:PutTraceSegments", "xray:PutTelemetryRecords",
                            "xray:GetSamplingRules", "xray:GetSamplingTargets"}
    \/ /\ s.actions = {"cloudwatch:PutMetricData"}
       /\ s.conditions = {<<"StringEquals", "cloudwatch:namespace", "bedrock-agentcore">>}
    \/ /\ s.actions = {"s3:GetObject"}
       /\ s.resources \subseteq
            {SchemaBucketArn \o "/*"}
            \cup (IF Truthy(props.agentCoreSchemasBucket)
                  THEN {"arn:aws:s3:::" \o props.agentCoreSchemasBucket \o "/*"} ELSE {})
    \/ s.actions = {"lambda:InvokeFunction"}
    \/ /\ s.actions = {"bedrock-agentcore:SynchronizeGatewayTargets"}
       /\ props.enableSemanticSearch

\* C13, as the specification states it: every statement of the gateway's
\* execution role is one of the grants the configuration asks for, and none
\* has a wildcard action.  The code does not do this: the stack adds a
\* statement of its own with bedrock-agentcore:* on every resource.
C13_RoleGrantsDerivedFromConfiguration ==
    \A i \in DOMAIN stack.gatewayExecutionRole.statements :
        LET s == stack.gatewayExecutionRole.statements[i]
        IN  /\ ConfiguredGrant(s)
            /\ \A a \in s.actions : IndexOf(a, "*") = 0

\* The text s with every occurrence of p replaced by the text r itself.
RECURSIVE replaceAllLiterally(_, _, _)
replaceAllLiterally(s, p, r) ==
    LET i == IndexOf(s, p)
    IN  IF i = 0 THEN s
        ELSE SubSeq(s, 1, i - 1) \o r \o replaceAllLiterally(Slice(s, i + Len(p)), p, r)

Substituted == "fn" \in DOMAIN input /\ input.fn = "replace" /\ output # EmptyRecord

\* C14: for every template text and every substitution value, the
\* materialized document is the template with every occurrence of
\* {{BASE_URL}} replaced by the value itself and all other text unchanged.
\* The value "https://x/$&" refutes it: the "$&" in it comes out as the
\* placeholder.
C14_EveryOccurrenceReplacedByValue ==
    Substituted =>
        output.processedContent
            = replaceAllLiterally(input.templateContent, "{{BASE_URL}}", input.baseUrl)

Parsed == "fn" \in DOMAIN input /\ input.fn = "match" /\ output # EmptyRecord

\* The ways to read a string as s3://<bucket>/<key>, bucket non-empty and
\* without "/", key non-empty.
Shapes(u) ==
    {<<SubSeq(u, 6, i - 1), Slice(u, i + 1)>> :
        i \in {j \in 7..(Len(u) - 1) :
                  /\ startsWith(u, "s3://")
                  /\ CharAt(u, j) = "/"
                  /\ IndexOf(SubSeq(u, 6, j - 1), "/") = 0}}

\* C15: the location parser maps a string of the shape s3://<bucket>/<key>
\* to exactly that bucket and that key, and for every other string the
\* construct fails with the malformed-location error and holds no secret,
\* provider or registration.  The location "s3://b/a<newline>b" refutes it:
\* it has the shape and is rejected.
C15_LocationParsedOrRejected ==
    Parsed =>
        /\ \A bk \in Shapes(input.openApiSchemaS3Uri) :
              /\ output.s3UriMatch = bk
              /\ output.construct.thrown = "none"
        /\ Shapes(input.openApiSchemaS3Uri) = {} =>
              /\ output.s3UriMatch = <<>>
              /\ output.construct.thrown = "InvalidS3Uri"
              /\ output.construct.resources = EmptyRecord

\* The registration of the target of one type in the synthesized stack.
RegistrationOf(type) ==
    LET r == CHOOSE x \in DOMAIN stack.resources :
                /\ ConstructOf(x) = TargetConstructName(type)
                /\ IsCustom(stack.resources[x])
                /\ IsTarget(stack.resources[x])
    IN  stack.resources[r].onCreate.parameters

SchemaLocationOf(type) == RegistrationOf(type).targetConfiguration.mcp.openApiSchema.s3.uri

CredentialBlockOf(type) ==
    RegistrationOf(type).credentialProviderConfigurations[1]
        .credentialProvider.apiKeyCredentialProvider

SchemasBucketInUse ==
    IF Truthy(props.agentCoreSchemasBucket) THEN props.agentCoreSchemasBucket
    ELSE "amazonbedrockagentcore-built-sampleschemas"

\* What the type prefix decides for one enabled target of a stack that was
\* constructed.
PreBuiltAddressing(tc) ==
    LET name == Slice(tc.type, Len("agentcore-") + 1)
    IN  /\ (tc.type \o "SchemaProcessor") \notin DOMAIN stack.resources
        /\ \A x \in DOMAIN stack.resources :
              IsCustom(stack.resources[x]) /\ IsSchemaObject(stack.resources[x])
                  => stack.resources[x].onCreate.parameters.Key # name \o "-open-api.json"
                     \/ (\E c \in EnabledTargets : c.type = name)
        /\ SchemaLocationOf(tc.type)
              = "s3://" \o SchemasBucketInUse \o "/" \o name \o "-open-api.json"
        /\ CredentialBlockOf(tc.type).credentialParameterName = "Authorization"
        /\ CredentialBlockOf(tc.type).credentialPrefix = "Basic"

TemplatedAddressing(tc) ==
    LET id == tc.type \o "SchemaProcessor"
    IN  /\ tc.config.baseUrl \notin {Undefined, ""}
        /\ id \in DOMAIN stack.resources
        /\ stack.resources[id].onCreate.action = "putObject"
        /\ stack.resources[id].onCreate.parameters.Bucket = SchemaBucketName
        /\ stack.resources[id].onCreate.parameters.Key = tc.type \o "-open-api.json"
        /\ stack.resources[id].onCreate.parameters.Body
              = replaceAllLiterally(SchemaTemplates[tc.type], "{{BASE_URL}}",
                                    tc.config.baseUrl)
        /\ SchemaLocationOf(tc.type)
              = "s3://" \o SchemaBucketName \o "/" \o tc.type \o "-open-api.json"

AddressingByPrefix ==
    stack.thrown = "none" =>
        \A tc \in EnabledTargets :
            IF startsWith(tc.type, "agentcore-")
            THEN PreBuiltAddressing(tc)
            ELSE TemplatedAddressing(tc)

\* C16: in every stack that is constructed, on the first run (the steps
\* taken before any call is issued) and on every redeployment, an enabled target whose type begins with "agentcore-" has
\* no schema document materialized or uploaded, the schema location
\* <schemas bucket>/<type without the prefix>-open-api.json and the
\* credential parameter name Authorization and prefix Basic, whatever its
\* base URL and auth settings are; every other enabled target has a base
\* URL and its schema materialized from the template into the stack's own
\* bucket.
C16_AddressingModeByTypePrefix ==
    [][/\ lastCall = EmptyRecord => AddressingByPrefix
       /\ redeploys' # redeploys => AddressingByPrefix']_vars

\* Both modes in one deployed stack: a pre-built target configured with no
\* base URL and an auth of its own, next to a templated target.
C16_Witness ==
    /\ stack.thrown = "none" /\ txn = "idle" /\ lastCall # EmptyRecord
    /\ \E tc \in EnabledTargets :
          /\ startsWith(tc.type, "agentcore-")
          /\ tc.config.baseUrl = Undefined
          /\ tc.config.auth.parameterName = "X-Api-Key"
          /\ \E x \in DOMAIN applied :
                ConstructOf(x) = TargetConstructName(tc.type) /\ IsTarget(applied[x].definition)
    /\ \E tc \in EnabledTargets :
          /\ ~startsWith(tc.type, "agentcore-")
          /\ (tc.type \o "SchemaProcessor") \in DOMAIN applied

\* The registrations of the target of one type that exist.
RegisteredFor(type) ==
    {x \in DOMAIN applied :
        ConstructOf(x) = TargetConstructName(type) /\ IsTarget(applied[x].definition)}

\* C17: a deployment that contains an enabled "agentcore-" target and sets
\* no schema-bucket parameter is rejected (the constructor throws) and
\* registers no target for it.  The code does not do this: it falls back on
\* a bucket name of its own and registers the target.
C17_PreBuiltTargetNeedsSchemasBucket ==
    \A tc \in EnabledTargets :
        startsWith(tc.type, "agentcore-") /\ ~Truthy(props.agentCoreSchemasBucket)
            => stack.thrown # "none" /\ RegisteredFor(tc.type) = {}

CustomAuthAsConfigured ==
    stack.thrown = "none" =>
        \A tc \in EnabledTargets :
            ~startsWith(tc.type, "agentcore-") =>
                LET auth == tc.config.auth
                    config == RegistrationOf(tc.type).credentialProviderConfigurations
                IN  /\ Len(config) = 1
                    /\ config[1].credentialProviderType = "API_KEY"
                    /\ CredentialBlockOf(tc.type).credentialLocation = "HEADER"
                    /\ CredentialBlockOf(tc.type).credentialParameterName
                          = (IF auth.parameterName \in {Undefined, ""} THEN "Authorization"
                             ELSE auth.parameterName)
                    /\ CredentialBlockOf(tc.type).credentialPrefix
                          = (IF auth.prefix \in {Undefined, ""} THEN "Basic"
                             ELSE auth.prefix)

EntryPointRan == "fn" \in DOMAIN input /\ input.fn = "main" /\ output # EmptyRecord

\* C19: for every configuration document the entry point deploys with
\* authentication mode IAM exactly when gateway.authenticationType is "IAM"
\* and with JWT otherwise, and a configuration that sets "IAM" yields a
\* deployment (the stack is constructed) with no Cognito resources.  The
\* code does not do this: with "IAM" the stack's constructor throws (C1), and
\* the entry point of bin/ does not read the setting at all.
C19_EntryPointSelectsMode ==
    EntryPointRan =>
        LET wanted == IF input.config.gateway.authenticationType = "IAM" THEN "IAM" ELSE "JWT"
        IN  /\ authenticationType(output.props) = wanted
            /\ output.stack.cognitoUserPool <=> wanted = "JWT"
            /\ wanted = "IAM" => output.stack.thrown = "none"

\* The search type a gateway call carries, if any.
SearchTypeOf(call) ==
    IF "searchType" \in DOMAIN call.parameters.protocolConfiguration.mcp
    THEN call.parameters.protocolConfiguration.mcp.searchType
    ELSE Undefined

\* C20: once the gateway is active, no UpdateGateway call issued on a
\* redeployment carries a search type different from the one of the gateway
\* call before it (the CreateGateway call, or an update that carried the
\* same as that).  The code does not do this: a redeployment that turns
\* enableSemanticSearch on sends searchType SEMANTIC in the update call.
C20_SearchTypeSetAtCreationOnly ==
    [][(GatewayCallIssued /\ lastCall'[GatewayId].action = "UpdateGateway")
          => SearchTypeOf(lastCall'[GatewayId]) = SearchTypeOf(lastCall[GatewayId])]_vars

\* C21: in a stack that is constructed, any two enabled targets whose type
\* strings differ have different secret names, different credential-provider
\* names and different gateway-target names (compared when the first run
\* has synthesized).  The code does not do this: the custom type "jira" and
\* the pre-built type "agentcore-jira" are both named after "jira".
C21_DistinctTypesDistinctNames ==
    (lastCall = EmptyRecord /\ stack.thrown = "none") =>
        \A a, b \in EnabledTargets :
            a.type # b.type =>
                \A i \in 1..3 : Names(props, a)[i] # Names(props, b)[i]

\* C22: whatever order the engine takes, when the CreateGatewayTarget call
\* of an enabled custom target is issued, the schema document of that target
\* has been uploaded (its putObject resource exists).  The code does not do
\* this: the registration has no dependency edge on the upload.
C22_SchemaUploadedBeforeRegistration ==
    [][\A r \in DOMAIN lastCall' :
          (Issued(r) /\ lastCall'[r].action = "CreateGatewayTarget") =>
              \A tc \in EnabledTargets :
                  (~startsWith(tc.type, "agentcore-")
                   /\ TargetConstructName(tc.type) = ConstructOf(r))
                      => (tc.type \o "SchemaProcessor") \in DOMAIN applied]_vars

\* The buckets whose objects the execution role of the stack may read.
ReadableBucketArns ==
    UNION {{SubSeq(a, 1, Len(a) - 2) :
              a \in {x \in st.resources : Len(x) > 2 /\ Slice(x, Len(x) - 1) = "/*"}} :
           st \in {stack.gatewayExecutionRole.statements[i] :
                     i \in {j \in DOMAIN stack.gatewayExecutionRole.statements :
                              "s3:GetObject"
                                \in stack.gatewayExecutionRole.statements[j].actions}}}

\* The bucket named in the schema location a registration call carries.
LocationBucketOf(call) ==
    s3UriMatch(call.parameters.targetConfiguration.mcp.openApiSchema.s3.uri)[1]

SchemaBucketReadable(r) ==
    ("arn:aws:s3:::" \o LocationBucketOf(lastCall'[r])) \in ReadableBucketArns

\* C23: whenever a target's registration call is issued, the bucket named
\* in its schema location is one the gateway's execution role is granted
\* s3:GetObject on the objects of.  The code does not do this for a
\* pre-built target when the schema-bucket parameter is unset: the location
\* names the fallback bucket, which the role is not granted.
C23_SchemaBucketGrantedToRole ==
    [][\A r \in DOMAIN lastCall' :
          (Issued(r) /\ lastCall'[r].action = "CreateGatewayTarget")
              => SchemaBucketReadable(r)]_vars

\* The provider reference a registration call carries.
ProviderArnOf(call) ==
    call.parameters.credentialProviderConfigurations[1]
        .credentialProvider.apiKeyCredentialProvider.providerArn

\* The reference that identifies, in the deployment's account and region,
\* the provider the control plane registered under the handle name.
ArnOfRegisteredProvider(name) ==
    "arn:aws:bedrock-agentcore:" \o Region \o ":" \o Account
        \o ":token-vault/default/apikeycredentialprovider/" \o name

\* C24: whenever a target's registration call (create or update) is issued,
\* the credential provider of that same target is registered, and the
\* provider reference in the call names it by the handle its create call
\* returned, in the deployment's own account and region.
C24_ProviderReferenceIsOwnProvider ==
    [][\A r \in DOMAIN lastCall' :
          (Issued(r)
           /\ lastCall'[r].action \in {"CreateGatewayTarget", "UpdateGatewayTarget"}) =>
              /\ ProvidersOf(r) # {}
              /\ \A x \in ProvidersOf(r) :
                    ProviderArnOf(lastCall'[r])
                        = ArnOfRegisteredProvider(applied[x].physicalId)]_vars

\* Two targets registered, each after the provider of its own.
C24_Witness ==
    /\ txn = "idle"
    /\ Cardinality({r \in DOMAIN applied : IsTarget(applied[r].definition)}) = 2
    /\ \A r \in {x \in DOMAIN applied : IsTarget(applied[x].definition)} :
          /\ r \in DOMAIN lastCall /\ lastCall[r].status = "ok"
          /\ \E x \in ProvidersOf(r) :
                ProviderArnOf(lastCall[r]) = ArnOfRegisteredProvider(applied[x].physicalId)

\* The target entries of the configuration document the entry point ran on.
ConfiguredTargets ==
    {input.config.integrationTargets[i] : i \in DOMAIN input.config.integrationTargets}

EnabledTypes == {tc.type : tc \in {c \in ConfiguredTargets : c.enabled}}

\* The resources of the constructed stack made for the target type.
ResourcesFor(type) ==
    {r \in DOMAIN output.stack.resources :
        r = type \o "SchemaProcessor" \/ ConstructOf(r) = TargetConstructName(type)}

\* C25: in every stack the entry point constructs, a target type that no
\* enabled entry of the configuration names has no secret, credential
\* provider, schema upload, registration or output; the per-target outputs
\* and the entries of the stack's integrationTargets map are exactly those
\* of the enabled types; and a stack that fails for want of a base URL has
\* an enabled custom target without one.
C25_DisabledTargetContributesNothing ==
    EntryPointRan =>
        /\ output.stack.thrown = "none" =>
              /\ output.stack.integrationTargets = EnabledTypes
              /\ {t \in {tc.type : tc \in ConfiguredTargets} :
                       TargetOutputId(t) \in output.stack.outputs} = EnabledTypes
              /\ \A tc \in ConfiguredTargets :
                    tc.type \notin EnabledTypes => ResourcesFor(tc.type) = {}
        /\ output.stack.thrown = "BaseUrlRequired" =>
              \E tc \in ConfiguredTargets :
                  /\ tc.enabled /\ ~startsWith(tc.type, "agentcore-")
                  /\ tc.config.baseUrl = Undefined

\* A stack constructed from a document with an enabled target and a
\* disabled custom target that has no base URL.
C25_Witness ==
    /\ EntryPointRan /\ output.stack.thrown = "none"
    /\ EnabledTypes # {}
    /\ \A t \in EnabledTypes : ResourcesFor(t) # {}
    /\ \E tc \in ConfiguredTargets :
          /\ ~tc.enabled /\ tc.type \notin EnabledTypes
          /\ ~startsWith(tc.type, "agentcore-")
          /\ tc.config.baseUrl = Undefined

====
